---------------------------- MODULE Spec2Model ----------------------------
(***************************************************************************)
(* Mission Control (src/app_railway.py, src/app_minimal.py): a Flask       *)
(* dashboard over a relational store, SQLite or PostgreSQL.                *)
(*                                                                         *)
(* The persistent store is the variable `database`.  Every request is one  *)
(* action: it opens its connection lazily, runs the handler's statements   *)
(* in order against a working copy, keeps what was committed and drops     *)
(* the rest at teardown (close_db).  Each call that reaches the database   *)
(* driver is numbered; the input failAt names the call that raises, 0 for  *)
(* none, so a fault can strike at any statement of a handler.  The         *)
(* variable `request` keeps what the last request did with its connection  *)
(* and which statements it handed to the driver.                           *)
(*                                                                         *)
(* Text is a sequence of one-character strings, so that strip() and the    *)
(* [:100] slices are computed.  Timestamp columns are not modelled; the   *)
(* clock only enters through the generated session id.                     *)
(***************************************************************************)
EXTENDS Integers, Sequences, FiniteSets, TLC

VARIABLES backend, database, db_initialized, resp, request

vars == <<backend, database, db_initialized, resp, request>>

---------------------------------------------------------------------------
(* Bounds of the model                                                     *)

\* Largest agent id a request names.
MaxAgentId == 6
\* Largest project id a request names.
MaxProjectId == 1
\* Largest number of keys of a table that failed initializations use up.
MaxBurn == 1

\* content[:100] and task[:100]
DescLimit == 100

---------------------------------------------------------------------------
(* Text                                                                    *)

IsSpace(ch) == ch \in {" ", "\t", "\n"}

RECURSIVE LStrip(_)
LStrip(s) == IF s # <<>> /\ IsSpace(Head(s)) THEN LStrip(Tail(s)) ELSE s

RECURSIVE RStrip(_)
RStrip(s) ==
    IF s # <<>> /\ IsSpace(s[Len(s)]) THEN RStrip(SubSeq(s, 1, Len(s) - 1)) ELSE s

\* str.strip()
Strip(s) == RStrip(LStrip(s))

\* s[:n]
Prefix(s, n) == SubSeq(s, 1, IF Len(s) < n THEN Len(s) ELSE n)

\* str.lower() on the agent names the program knows
Lower(name) ==
    CASE name = "Alpha" -> "alpha"
      [] name = "Beta" -> "beta"
      [] name = "Gamma" -> "gamma"
      [] name = "Delta" -> "delta"
      [] name = "Epsilon" -> "epsilon"
      [] OTHER -> name

\* dict.get(key, default) on a request body; a key is absent (<<>>) or holds
\* one value (<<v>>).
DataGet(field, default) == IF field = <<>> THEN default ELSE field[1]

---------------------------------------------------------------------------
(* The store                                                               *)

TableNames == <<"agents", "messages", "projects", "timeline", "subagents">>

EmptyDatabase ==
    [tables |-> {},
     agents |-> <<>>, projects |-> <<>>, messages |-> <<>>,
     timeline |-> <<>>, subagents |-> <<>>,
     serial |-> [agents |-> 0, projects |-> 0]]

default_agents ==
    << [name |-> "Alpha", role |-> "Research Assistant", status |-> "idle"],
       [name |-> "Beta", role |-> "Code Reviewer", status |-> "idle"],
       [name |-> "Gamma", role |-> "Content Writer", status |-> "idle"],
       [name |-> "Delta", role |-> "Data Analyst", status |-> "idle"],
       [name |-> "Epsilon", role |-> "DevOps Engineer", status |-> "idle"] >>

default_projects ==
    << [name |-> "YouTube Automation", category |-> "youtube", status |-> "active", progress |-> 65],
       [name |-> "Betting Analytics", category |-> "betting", status |-> "active", progress |-> 40],
       [name |-> "F-Gas Compliance", category |-> "f-gas", status |-> "paused", progress |-> 80],
       [name |-> "Trading Bot", category |-> "trading", status |-> "active", progress |-> 25] >>

bootstrap_event ==
    [event_type |-> "system", title |-> <<"Mission Control Started">>,
     description |-> <<"System initialized and ready">>, agent_name |-> "System"]

is_postgresql == backend = "postgresql"

is_sqlite == backend = "sqlite"

---------------------------------------------------------------------------
(* Statements.  ph records the placeholder style of the statement text:    *)
(* "qmark" when it is written with ?, "format" once rewritten to %s,       *)
(* "none" when it has no placeholder.  params tells whether a parameter    *)
(* tuple is passed along.                                                  *)

CreateTable(t) == [sql |-> "create", ph |-> "none", params |-> FALSE, table |-> t, val |-> <<>>]

SelectOne == [sql |-> "select_one", ph |-> "none", params |-> FALSE, table |-> "", val |-> <<>>]

SelectCount(t) == [sql |-> "count", ph |-> "none", params |-> FALSE, table |-> t, val |-> <<>>]

SelectAgent(agent_id) ==
    [sql |-> "select_agent", ph |-> "qmark", params |-> TRUE, table |-> "agents", val |-> agent_id]

InsertAgent(agent) ==
    [sql |-> "insert_agent", ph |-> "qmark", params |-> TRUE, table |-> "agents", val |-> agent]

InsertProject(project) ==
    [sql |-> "insert_project", ph |-> "qmark", params |-> TRUE, table |-> "projects", val |-> project]

InsertBootstrap ==
    [sql |-> "insert_timeline", ph |-> "none", params |-> FALSE, table |-> "timeline", val |-> bootstrap_event]

InsertTimeline(event) ==
    [sql |-> "insert_timeline", ph |-> "qmark", params |-> TRUE, table |-> "timeline", val |-> event]

InsertMessage(agent_id, content, direction) ==
    [sql |-> "insert_message", ph |-> "qmark", params |-> TRUE, table |-> "messages",
     val |-> [agent_id |-> agent_id, content |-> content, direction |-> direction]]

InsertSubagent(session_id, agent_name, task, status) ==
    [sql |-> "insert_subagent", ph |-> "qmark", params |-> TRUE, table |-> "subagents",
     val |-> [session_id |-> session_id, agent_name |-> agent_name, task |-> task,
              status |-> status, completed_at |-> <<>>]]

\* SELECT * FROM <table> ... LIMIT <limit>, the limit written in the text.
\* The order of the rows (ORDER BY) is not modelled.
SelectAll(t, limit) ==
    [sql |-> "select_all", ph |-> "none", params |-> FALSE, table |-> t, val |-> limit]

\* SELECT * FROM timeline ORDER BY created_at DESC LIMIT ?
SelectTimeline(limit) ==
    [sql |-> "select_all", ph |-> "qmark", params |-> TRUE, table |-> "timeline", val |-> limit]

\* SELECT ... FROM messages WHERE agent_id = ? ... LIMIT <limit>
SelectMessages(agent_id, limit) ==
    [sql |-> "select_messages", ph |-> "qmark", params |-> TRUE, table |-> "messages",
     val |-> [agent_id |-> agent_id, limit |-> limit]]

UpdateAgentStatus(status, agent_id) ==
    [sql |-> "update_agent", ph |-> "qmark", params |-> TRUE, table |-> "agents",
     val |-> [status |-> status, id |-> agent_id]]

UpdateProjectProgress(progress, project_id) ==
    [sql |-> "update_progress", ph |-> "qmark", params |-> TRUE, table |-> "projects",
     val |-> [progress |-> progress, id |-> project_id]]

UpdateProjectStatus(status, project_id) ==
    [sql |-> "update_status", ph |-> "qmark", params |-> TRUE, table |-> "projects",
     val |-> [status |-> status, id |-> project_id]]

---------------------------------------------------------------------------
(* One request's view of the store                                         *)

NoErr == "none"

NoCursor == [kind |-> "none", rows |-> <<>>]

\* The application context of a request that has not touched the store yet.
NewContext(failAt) ==
    [db |-> database, saved |-> database, calls |-> 0, failAt |-> failAt,
     err |-> NoErr, conn |-> FALSE, opens |-> 0, cur |-> NoCursor, row |-> <<>>,
     log |-> {}, uses |-> 0, handed |-> {}, rows |-> <<>>]

Ok(ctx) == ctx.err = NoErr

Raise(ctx, e) == [ctx EXCEPT !.err = e]

\* logger.info(message), reached only when nothing raised before it
Info(ctx, message) == IF Ok(ctx) THEN [ctx EXCEPT !.log = @ \cup {message}] ELSE ctx

\* One call into the database driver; the call numbered failAt raises.
DriverCall(ctx) ==
    LET n == ctx.calls + 1
    IN  [ctx EXCEPT !.calls = n,
                    !.err = IF n = ctx.failAt THEN "OperationalError" ELSE @]

\* get_db without its test 'db' not in g: every use connects anew.
get_db_connecting_anew(ctx) ==
    IF ~Ok(ctx) THEN ctx
    ELSE LET c == DriverCall([ctx EXCEPT !.uses = @ + 1])
         IN  IF Ok(c) THEN [c EXCEPT !.conn = TRUE, !.opens = @ + 1] ELSE c

\* uses counts the calls of get_db, opens the connections it opened; conn
\* tells whether g holds one.
get_db(ctx) ==
    IF ~Ok(ctx) THEN ctx
    ELSE IF ctx.conn THEN [ctx EXCEPT !.uses = @ + 1]
    ELSE LET c == DriverCall([ctx EXCEPT !.uses = @ + 1])
         IN  IF Ok(c) THEN [c EXCEPT !.conn = TRUE, !.opens = @ + 1] ELSE c

\* On SQLite the "cursor" is the connection itself.
get_cursor(ctx) ==
    LET c == get_db(ctx)
    IN  IF ~Ok(c) THEN c
        ELSE [c EXCEPT !.cur = [kind |-> IF is_postgresql THEN "cursor" ELSE "connection",
                                rows |-> <<>>]]

NameTaken(rows, name) == \E i \in 1..Len(rows) : rows[i].name = name

HasId(rows, id) == \E i \in 1..Len(rows) : rows[i].id = id

\* The rows a cursor holds after the statement; only a real cursor keeps them
\* (the SQLite connection's execute() result is dropped by the callers).
WithRows(ctx, rows) ==
    [ctx EXCEPT !.cur.rows = IF ctx.cur.kind = "cursor" THEN rows ELSE <<>>]

\* An INSERT into a table with a serial key and a UNIQUE name.  PostgreSQL
\* draws the key before it checks the constraint and never gives it back.
InsertNamed(ctx, t, row) ==
    LET id == ctx.db.serial[t] + 1
        dup == NameTaken(ctx.db[t], row.name)
        drawn == [ctx EXCEPT !.db.serial[t] = id]
    IN  IF dup THEN Raise(IF is_postgresql THEN drawn ELSE ctx, "IntegrityError")
        ELSE [drawn EXCEPT !.db[t] = Append(@, [row EXCEPT !.id = id])]

\* The timeline created afresh at every start: DROP TABLE before CREATE TABLE.
CreateTimelineAfresh(store, t) ==
    IF t = "timeline" THEN [store EXCEPT !.tables = @ \cup {t}, !.timeline = <<>>]
    ELSE [store EXCEPT !.tables = @ \cup {t}]

\* CREATE TABLE IF NOT EXISTS: an existing table keeps its rows.
CreateIfNotExists(store, t) == [store EXCEPT !.tables = @ \cup {t}]

\* The effect of a statement the backend accepted.  SQLite applies a CREATE
\* TABLE at once, outside any transaction.
ApplyStatement(ctx, stmt) ==
    CASE stmt.sql = "create" ->
            IF is_postgresql THEN [ctx EXCEPT !.db = CreateIfNotExists(@, stmt.table)]
            ELSE [ctx EXCEPT !.db = CreateIfNotExists(@, stmt.table),
                             !.saved = CreateIfNotExists(@, stmt.table)]
      [] stmt.sql = "select_one" -> WithRows(ctx, <<[one |-> 1]>>)
      [] stmt.table \notin ctx.db.tables -> Raise(ctx, "NoSuchTable")
      [] stmt.sql = "count" -> WithRows(ctx, <<[count |-> Len(ctx.db[stmt.table])]>>)
      [] stmt.sql = "select_agent" ->
            WithRows(ctx, SelectSeq(ctx.db.agents, LAMBDA r : r.id = stmt.val))
      [] stmt.sql = "select_all" -> WithRows(ctx, Prefix(ctx.db[stmt.table], stmt.val))
      [] stmt.sql = "select_messages" ->
            WithRows(ctx, Prefix(SelectSeq(ctx.db.messages,
                                           LAMBDA r : r.agent_id = stmt.val.agent_id),
                                 stmt.val.limit))
      [] stmt.sql = "insert_agent" ->
            InsertNamed(ctx, "agents", stmt.val @@ [id |-> 0])
      [] stmt.sql = "insert_project" ->
            InsertNamed(ctx, "projects", stmt.val @@ [id |-> 0])
      [] stmt.sql = "insert_timeline" -> [ctx EXCEPT !.db.timeline = Append(@, stmt.val)]
      [] stmt.sql = "insert_message" ->
            IF is_postgresql /\ ~HasId(ctx.db.agents, stmt.val.agent_id)
            THEN Raise(ctx, "IntegrityError")
            ELSE [ctx EXCEPT !.db.messages = Append(@, stmt.val)]
      [] stmt.sql = "insert_subagent" -> [ctx EXCEPT !.db.subagents = Append(@, stmt.val)]
      [] stmt.sql = "update_agent" ->
            [ctx EXCEPT !.db.agents =
                [i \in 1..Len(@) |->
                    IF @[i].id = stmt.val.id THEN [@[i] EXCEPT !.status = stmt.val.status]
                    ELSE @[i]]]
      [] stmt.sql = "update_progress" ->
            [ctx EXCEPT !.db.projects =
                [i \in 1..Len(@) |->
                    IF @[i].id = stmt.val.id THEN [@[i] EXCEPT !.progress = stmt.val.progress]
                    ELSE @[i]]]
      [] stmt.sql = "update_status" ->
            [ctx EXCEPT !.db.projects =
                [i \in 1..Len(@) |->
                    IF @[i].id = stmt.val.id THEN [@[i] EXCEPT !.status = stmt.val.status]
                    ELSE @[i]]]

\* cursor.execute(query, params) on the object get_cursor() returned.  The
\* PostgreSQL driver fills %s placeholders only: a statement still written
\* with ? is refused, by the driver's formatting when parameters come with it.
\* SQLite takes ? and refuses %s.
\* handed keeps the placeholder style of every statement given to execute().
cursor_execute(ctx, stmt) ==
    IF ~Ok(ctx) THEN ctx
    ELSE LET h == [ctx EXCEPT !.handed = @ \cup {stmt.ph}]
         IN  IF is_postgresql /\ stmt.ph = "qmark"
             THEN Raise(h, IF stmt.params THEN "TypeError" ELSE "SyntaxError")
             ELSE IF ~is_postgresql /\ stmt.ph = "format" THEN Raise(h, "OperationalError")
             ELSE LET c == DriverCall(h)
                  IN  IF Ok(c) THEN ApplyStatement(c, stmt) ELSE c

\* query.replace('?', '%s')
RewritePlaceholders(stmt) == [stmt EXCEPT !.ph = IF @ = "qmark" THEN "format" ELSE @]

\* Returns the object get_cursor() gave, not what execute() returned.
execute_sql(ctx, stmt) ==
    LET c == get_cursor(ctx)
        query == IF is_postgresql THEN RewritePlaceholders(stmt) ELSE stmt
    IN  cursor_execute(c, query)

commit_db(ctx) ==
    LET c == get_db(ctx)
    IN  IF ~Ok(c) THEN c
        ELSE LET d == DriverCall(c)
             IN  IF Ok(d) THEN [d EXCEPT !.saved = d.db] ELSE d

\* cursor.fetchone(): the SQLite connection has no such method.
fetchone(ctx) ==
    IF ~Ok(ctx) THEN ctx
    ELSE IF ctx.cur.kind # "cursor" THEN Raise(ctx, "AttributeError")
    ELSE [ctx EXCEPT !.row = IF ctx.cur.rows = <<>> THEN <<>> ELSE <<ctx.cur.rows[1]>>]

\* cursor.fetchall(): the SQLite connection has no such method either.
fetchall(ctx) ==
    IF ~Ok(ctx) THEN ctx
    ELSE IF ctx.cur.kind # "cursor" THEN Raise(ctx, "AttributeError")
    ELSE [ctx EXCEPT !.rows = ctx.cur.rows]

\* db = g.pop('db', None); if db is not None: db.close().  The connections
\* the request opened that are still open afterwards.
OpenAfterTeardown(ctx) == ctx.opens - (IF ctx.conn THEN 1 ELSE 0)

\* What a request did with the data-access layer, seen after its teardown.
Footprint(ctx) ==
    [uses |-> ctx.uses, opens |-> ctx.opens, open |-> OpenAfterTeardown(ctx),
     handed |-> ctx.handed]

\* Teardown: the connection is closed and what was not committed is lost.
\* A PostgreSQL sequence is not rolled back while its table exists.
close_db(ctx) ==
    IF is_postgresql
    THEN [ctx.saved EXCEPT !.serial =
            [t \in DOMAIN @ |-> IF t \in ctx.saved.tables THEN ctx.db.serial[t] ELSE @[t]]]
    ELSE ctx.saved

---------------------------------------------------------------------------
(* Initialization                                                          *)

\* The five CREATE TABLE IF NOT EXISTS statements, in order, on the cursor.
RECURSIVE CreateTables(_, _)
CreateTables(ctx, i) ==
    IF i > Len(TableNames) THEN ctx
    ELSE CreateTables(cursor_execute(ctx, CreateTable(TableNames[i])), i + 1)

\* for row in defaults: execute_sql('INSERT ...', row)
RECURSIVE InsertEach(_, _, _)
InsertEach(ctx, stmts, i) ==
    IF i > Len(stmts) THEN ctx
    ELSE InsertEach(execute_sql(ctx, stmts[i]), stmts, i + 1)

\* count = result['count'] if result else 0
CountOf(ctx) == IF ctx.row = <<>> THEN 0 ELSE ctx.row[1].count

AgentsMissing(count) == count = 0

ProjectsMissing(count) == count = 0

\* The emptiness test of the timeline written as count >= 0.
TimelineMissingAlways(count) == count >= 0

TimelineMissing(count) == count = 0

SeedAgents(ctx) ==
    LET c == fetchone(execute_sql(ctx, SelectCount("agents")))
    IN  IF Ok(c) /\ AgentsMissing(CountOf(c))
        THEN Info(commit_db(InsertEach(c, [i \in 1..Len(default_agents) |->
                                             InsertAgent(default_agents[i])], 1)),
                  "Default agents inserted")
        ELSE c

SeedProjects(ctx) ==
    LET c == fetchone(execute_sql(ctx, SelectCount("projects")))
    IN  IF Ok(c) /\ ProjectsMissing(CountOf(c))
        THEN Info(commit_db(InsertEach(c, [i \in 1..Len(default_projects) |->
                                             InsertProject(default_projects[i])], 1)),
                  "Default projects inserted")
        ELSE c

SeedTimeline(ctx) ==
    LET c == fetchone(execute_sql(ctx, SelectCount("timeline")))
    IN  IF Ok(c) /\ TimelineMissing(CountOf(c))
        THEN Info(commit_db(execute_sql(c, InsertBootstrap)), "Initial timeline event inserted")
        ELSE c

\* The context init_db ends with; err tells whether it raised.
init_db(ctx) ==
    LET c0 == get_cursor(get_db(ctx))
        c1 == Info(commit_db(CreateTables(c0, 1)), "Database tables initialized successfully")
    IN  SeedTimeline(SeedProjects(SeedAgents(c1)))

---------------------------------------------------------------------------
(* Route handlers: each gives the context it leaves, the HTTP status and   *)
(* the JSON body.                                                          *)

Reply(ctx, code, body) == [ctx |-> ctx, code |-> code, body |-> body]

Failure(ctx, code, error) == Reply(ctx, code, [success |-> FALSE, error |-> error])

health(ctx) ==
    LET c == fetchone(execute_sql(ctx, SelectOne))
    IN  IF Ok(c)
        THEN Reply(c, 200, [status |-> "healthy", database |-> "connected", error |-> NoErr])
        ELSE Reply(c, 200, [status |-> "degraded", database |-> "disconnected", error |-> c.err])

\* render_template(template, ...) after flash(message, 'error') or without;
\* of the rows a page shows, the reply keeps how many there are.
Page(ctx, template, flash, shown) ==
    Reply(ctx, 200, [template |-> template, flash |-> flash, shown |-> shown])

\* redirect(url_for('agents')) after flash(message, 'error')
Redirect(ctx, flash) == Reply(ctx, 302, [location |-> "agents", flash |-> flash])

\* for agent in agents: the latest message of each agent, from the i-th on
RECURSIVE RecentMessages(_, _, _)
RecentMessages(ctx, agents, i) ==
    IF i > Len(agents) THEN ctx
    ELSE RecentMessages(fetchone(cursor_execute(ctx, SelectMessages(agents[i].id, 1))),
                        agents, i + 1)

index(ctx) ==
    LET c1 == fetchall(cursor_execute(get_cursor(ctx), SelectAll("agents", Len(ctx.db.agents))))
        c2 == fetchall(cursor_execute(c1, SelectAll("projects", Len(ctx.db.projects))))
        c3 == fetchall(cursor_execute(c2, SelectAll("timeline", 20)))
        c4 == RecentMessages(c3, c1.rows, 1)
    IN  IF Ok(c4) THEN Page(c4, "dashboard.html", NoErr, Len(c1.rows))
        ELSE Page(c4, "dashboard.html", "Error loading dashboard", 0)

agents(ctx) ==
    LET c == fetchall(cursor_execute(get_cursor(ctx), SelectAll("agents", Len(ctx.db.agents))))
    IN  IF Ok(c) THEN Page(c, "agents.html", NoErr, Len(c.rows))
        ELSE Page(c, "agents.html", "Error loading agents", 0)

agent_detail(ctx, agent_id) ==
    LET c1 == fetchone(cursor_execute(get_cursor(ctx), SelectAgent(agent_id)))
        c2 == fetchall(cursor_execute(c1, SelectMessages(agent_id, 50)))
    IN  IF ~Ok(c1) THEN Redirect(c1, "Error loading agent")
        ELSE IF c1.row = <<>> THEN Redirect(c1, "Agent not found")
        ELSE IF ~Ok(c2) THEN Redirect(c2, "Error loading agent")
        ELSE Page(c2, "agent_chat.html", NoErr, Len(c2.rows))

projects(ctx) ==
    LET c == fetchall(cursor_execute(get_cursor(ctx), SelectAll("projects", Len(ctx.db.projects))))
    IN  IF Ok(c) THEN Page(c, "projects.html", NoErr, Len(c.rows))
        ELSE Page(c, "projects.html", "Error loading projects", 0)

command_center(ctx) ==
    LET c1 == fetchall(cursor_execute(get_cursor(ctx), SelectAll("agents", Len(ctx.db.agents))))
        c2 == fetchall(cursor_execute(c1, SelectAll("subagents", 10)))
    IN  IF Ok(c2) THEN Page(c2, "command_center.html", NoErr, Len(c1.rows))
        ELSE Page(c2, "command_center.html", "Error loading command center", 0)

timeline(ctx) ==
    LET c == fetchall(cursor_execute(get_cursor(ctx), SelectAll("timeline", 100)))
    IN  IF Ok(c) THEN Page(c, "timeline.html", NoErr, Len(c.rows))
        ELSE Page(c, "timeline.html", "Error loading timeline", 0)

\* request.args.get('limit', 50, type=int)
ArgsLimit(limit) == IF limit = <<>> THEN 50 ELSE limit[1]

api_timeline(ctx, limit) ==
    LET c == fetchall(cursor_execute(get_cursor(ctx), SelectTimeline(ArgsLimit(limit))))
    IN  IF Ok(c) THEN Reply(c, 200, [success |-> TRUE, events |-> c.rows])
        ELSE Failure(c, 500, c.err)

api_agents_status(ctx) ==
    LET c == fetchall(cursor_execute(get_cursor(ctx), SelectAll("agents", Len(ctx.db.agents))))
    IN  IF Ok(c) THEN Reply(c, 200, [success |-> TRUE, agents |-> Len(c.rows)])
        ELSE Failure(c, 500, c.err)

\* A path no route matches; api tells whether it starts with /api/.
not_found(ctx, api) ==
    IF api THEN Failure(ctx, 404, "Not found")
    ELSE Reply(ctx, 404, [template |-> "dashboard.html", flash |-> NoErr, shown |-> 0])

\* app_minimal.py keeps its data in memory and probes nothing.
minimal_health == [code |-> 200, body |-> [status |-> "healthy"]]

send_message(ctx, agent_id, message) ==
    LET c1 == get_cursor(ctx)
        c2 == fetchone(cursor_execute(c1, SelectAgent(agent_id)))
        agent == c2.row[1]
        content == Strip(DataGet(message, <<>>))
        c3 == execute_sql(c2, InsertMessage(agent_id, content, "outbound"))
        c4 == execute_sql(c3, UpdateAgentStatus("busy", agent_id))
        c5 == execute_sql(c4, InsertTimeline(
                  [event_type |-> "message", title |-> <<"Message to ", agent.name>>,
                   description |-> Prefix(content, DescLimit), agent_name |-> agent.name]))
        c6 == commit_db(c5)
    IN  IF ~Ok(c2) THEN Failure(c2, 500, c2.err)
        ELSE IF c2.row = <<>> THEN Failure(c2, 404, "Agent not found")
        ELSE IF content = <<>> THEN Failure(c2, 400, "Message cannot be empty")
        ELSE IF ~Ok(c6) THEN Failure(c6, 500, c6.err)
        ELSE Reply(c6, 200, [success |-> TRUE, message |-> "Message sent", agent |-> agent.name])

Min(a, b) == IF a < b THEN a ELSE b

Max(a, b) == IF a > b THEN a ELSE b

\* The clamp without its lower limit: min(100, int(progress)).
ClampProgressNoFloor(progress) == Min(100, progress)

\* max(0, min(100, int(progress)))
ClampProgress(progress) == Max(0, Min(100, progress))

update_project(ctx, project_id, progress, status) ==
    LET c1 == IF progress # <<>>
              THEN execute_sql(ctx, UpdateProjectProgress(ClampProgress(progress[1]), project_id))
              ELSE ctx
        c2 == IF status # <<>> /\ status[1] # ""
              THEN execute_sql(c1, UpdateProjectStatus(status[1], project_id))
              ELSE c1
        c3 == commit_db(c2)
    IN  IF ~Ok(c3) THEN Failure(c3, 500, c3.err)
        ELSE Reply(c3, 200, [success |-> TRUE])

\* f"subagent-{now:%Y%m%d-%H%M%S}-{name.lower()}"
SessionId(now, name) == <<"subagent", now, Lower(name)>>

spawn_agent(ctx, agent_id, task, now) ==
    LET task_s == Strip(DataGet(task, <<>>))
        c1 == get_cursor(ctx)
        c2 == fetchone(cursor_execute(c1, SelectAgent(agent_id[1])))
        agent == c2.row[1]
        session_id == SessionId(now, agent.name)
        c3 == execute_sql(c2, InsertSubagent(session_id, agent.name, task_s, "running"))
        c4 == execute_sql(c3, UpdateAgentStatus("active", agent_id[1]))
        c5 == execute_sql(c4, InsertTimeline(
                  [event_type |-> "spawn", title |-> <<"Agent ", agent.name, " Spawned">>,
                   description |-> Prefix(task_s, DescLimit), agent_name |-> agent.name]))
        c6 == commit_db(c5)
    IN  IF agent_id = <<>> \/ agent_id[1] = 0 THEN Failure(ctx, 400, "No agent selected")
        ELSE IF task_s = <<>> THEN Failure(ctx, 400, "Task cannot be empty")
        ELSE IF ~Ok(c2) THEN Failure(c2, 500, c2.err)
        ELSE IF c2.row = <<>> THEN Failure(c2, 404, "Agent not found")
        ELSE IF ~Ok(c6) THEN Failure(c6, 500, c6.err)
        ELSE Reply(c6, 200, [success |-> TRUE, session_id |-> session_id, agent |-> agent.name])

---------------------------------------------------------------------------
(* Inputs                                                                  *)

Backends == {"sqlite", "postgresql"}

\* A JSON body key: absent, or present with one of the values.
Optional(values) == {<<>>} \cup {<<v>> : v \in values}

Texts == { <<>>, <<" ">>, <<" ", "g", "o", "\n">> }

\* The progress values requests carry, on either side of the range 0..100,
\* and those the clamping is also probed with from every state.
ProgressInputs == {-1, 101}

ProgressProbes == ProgressInputs \cup {-10, 0, 50, 100, 150}

StatusInputs == {"", "done"}

\* The limit argument of /api/timeline, absent or given.
LimitInputs == Optional({0, 1})

\* datetime.now().strftime('%Y%m%d-%H%M%S') at the time of a spawn request
ClockReadings == {"20261103-101500"}

\* The faults to try on a run that makes `calls` driver calls when none
\* fails: none (0), or the failure of any one of these calls.
FaultPoints(calls) == 0..calls

\* Keys of table t drawn by inserts that were rolled back (nothing is deleted).
Burned(db, t) == db.serial[t] - Len(db[t])

---------------------------------------------------------------------------
(* The state machine                                                       *)

\* A request that has not used the data-access layer.
NoFootprint == [uses |-> 0, opens |-> 0, open |-> 0, handed |-> {}]

Init ==
    /\ backend \in Backends
    /\ database = EmptyDatabase
    /\ db_initialized = "not_started"
    /\ resp = [op |-> "none", code |-> 0, body |-> [success |-> FALSE]]
    /\ request = NoFootprint

\* A request of the running application, answered with reply r.
Serve(op, r) ==
    /\ db_initialized # "not_started"
    /\ database' = close_db(r.ctx)
    /\ resp' = [op |-> op, code |-> r.code, body |-> r.body]
    /\ request' = Footprint(r.ctx)
    /\ UNCHANGED <<backend, db_initialized>>

\* Process start: db_initialized = init_app()
InitAppAt(failAt) ==
    LET c == init_db(NewContext(failAt))
    IN  /\ database' = close_db(c)
        /\ Burned(database', "agents") <= MaxBurn
        /\ Burned(database', "projects") <= MaxBurn
        /\ db_initialized' = IF Ok(c) THEN "yes" ELSE "no"
        /\ resp' = [op |-> "init_app", code |-> 0,
                    body |-> [success |-> Ok(c), error |-> c.err, log |-> c.log]]
        /\ request' = Footprint(c)
        /\ UNCHANGED backend

InitApp == \E failAt \in FaultPoints(init_db(NewContext(0)).calls) : InitAppAt(failAt)

HealthAt(failAt) == Serve("health", health(NewContext(failAt)))

Health == \E failAt \in FaultPoints(health(NewContext(0)).ctx.calls) : HealthAt(failAt)

MinimalHealth ==
    /\ resp' = [op |-> "minimal_health", code |-> minimal_health.code, body |-> minimal_health.body]
    /\ request' = NoFootprint
    /\ UNCHANGED <<backend, database, db_initialized>>

IndexAt(failAt) == Serve("index", index(NewContext(failAt)))

Index == \E failAt \in FaultPoints(index(NewContext(0)).ctx.calls) : IndexAt(failAt)

AgentsAt(failAt) == Serve("agents", agents(NewContext(failAt)))

Agents == \E failAt \in FaultPoints(agents(NewContext(0)).ctx.calls) : AgentsAt(failAt)

AgentDetailAt(failAt, agent_id) ==
    Serve("agent_detail", agent_detail(NewContext(failAt), agent_id))

AgentDetail ==
    \E agent_id \in 1..MaxAgentId :
        \E failAt \in FaultPoints(agent_detail(NewContext(0), agent_id).ctx.calls) :
            AgentDetailAt(failAt, agent_id)

ProjectsAt(failAt) == Serve("projects", projects(NewContext(failAt)))

Projects == \E failAt \in FaultPoints(projects(NewContext(0)).ctx.calls) : ProjectsAt(failAt)

CommandCenterAt(failAt) == Serve("command_center", command_center(NewContext(failAt)))

CommandCenter ==
    \E failAt \in FaultPoints(command_center(NewContext(0)).ctx.calls) : CommandCenterAt(failAt)

TimelineAt(failAt) == Serve("timeline", timeline(NewContext(failAt)))

Timeline == \E failAt \in FaultPoints(timeline(NewContext(0)).ctx.calls) : TimelineAt(failAt)

ApiTimelineAt(failAt, limit) == Serve("api_timeline", api_timeline(NewContext(failAt), limit))

ApiTimeline ==
    \E limit \in LimitInputs :
        \E failAt \in FaultPoints(api_timeline(NewContext(0), limit).ctx.calls) :
            ApiTimelineAt(failAt, limit)

ApiAgentsStatusAt(failAt) == Serve("api_agents_status", api_agents_status(NewContext(failAt)))

ApiAgentsStatus ==
    \E failAt \in FaultPoints(api_agents_status(NewContext(0)).ctx.calls) :
        ApiAgentsStatusAt(failAt)

NotFoundAt(api) == Serve("not_found", not_found(NewContext(0), api))

NotFound == \E api \in BOOLEAN : NotFoundAt(api)

SendMessageAt(failAt, agent_id, message) ==
    Serve("send_message", send_message(NewContext(failAt), agent_id, message))

SendMessage ==
    \E agent_id \in 1..MaxAgentId, message \in Optional(Texts) :
        \E failAt \in FaultPoints(send_message(NewContext(0), agent_id, message).ctx.calls) :
            SendMessageAt(failAt, agent_id, message)

UpdateProjectAt(failAt, project_id, progress, status) ==
    Serve("update_project", update_project(NewContext(failAt), project_id, progress, status))

UpdateProject ==
    \E project_id \in 1..MaxProjectId,
       progress \in Optional(ProgressInputs), status \in Optional(StatusInputs) :
        \E failAt \in FaultPoints(update_project(NewContext(0), project_id, progress, status).ctx.calls) :
            UpdateProjectAt(failAt, project_id, progress, status)

SpawnAgentAt(failAt, agent_id, task, now) ==
    Serve("spawn_agent", spawn_agent(NewContext(failAt), agent_id, task, now))

SpawnAgent ==
    \E agent_id \in Optional(0..MaxAgentId), task \in Optional(Texts), now \in ClockReadings :
        \E failAt \in FaultPoints(spawn_agent(NewContext(0), agent_id, task, now).ctx.calls) :
            SpawnAgentAt(failAt, agent_id, task, now)

Next ==
    \/ InitApp
    \/ Health
    \/ MinimalHealth
    \/ Index
    \/ Agents
    \/ AgentDetail
    \/ Projects
    \/ CommandCenter
    \/ Timeline
    \/ ApiTimeline
    \/ ApiAgentsStatus
    \/ NotFound
    \/ SendMessage
    \/ UpdateProject
    \/ SpawnAgent

Spec == Init /\ [][Next]_vars

---------------------------------------------------------------------------
(* Properties                                                              *)

Tables == {"agents", "projects", "messages", "timeline", "subagents"}

RowCounts(db) == [t \in Tables |-> Len(db[t])]

\* The rows of a seeded table without their keys.
Unkeyed(rows) ==
    [i \in 1..Len(rows) |-> [f \in DOMAIN rows[i] \ {"id"} |-> rows[i][f]]]

AgentWithId(db, id) == CHOOSE i \in 1..Len(db.agents) : db.agents[i].id = id

Blank(field) == Strip(DataGet(field, <<>>)) = <<>>

MutatingOps == {"send_message", "update_project", "spawn_agent"}

\* C1: every mutating API call (message, project update, spawn) answered with
\* success=true adds exactly one timeline row, and every such call that is
\* rejected or fails adds none.
C1_OneTimelineRowPerSuccess ==
    [][resp'.op \in MutatingOps =>
        Len(database'.timeline) =
            Len(database.timeline) + (IF resp'.body.success THEN 1 ELSE 0)]_vars

\* C2: the stored progress of every project is always within [0,100], and a
\* successful update with progress p leaves the project with 100 when
\* p > 100, with 0 when p < 0 and with p itself otherwise.
C2_ProgressClamped ==
    /\ \A i \in 1..Len(database.projects) : database.projects[i].progress \in 0..100
    /\ \A project_id \in 1..MaxProjectId, p \in ProgressProbes,
          status \in Optional(StatusInputs) :
          LET r == update_project(NewContext(0), project_id, <<p>>, status)
              stored == close_db(r.ctx).projects
          IN  (db_initialized # "not_started" /\ r.code = 200) =>
                  \A i \in 1..Len(stored) :
                      stored[i].id = project_id =>
                          stored[i].progress =
                              (IF p > 100 THEN 100 ELSE IF p < 0 THEN 0 ELSE p)

\* C2's case: an update asked for more than 100 and 100 is what is stored.
C2_Witness ==
    /\ resp.op = "update_project"
    /\ resp.body.success
    /\ \E i \in 1..Len(database.projects) : database.projects[i].progress = 100

\* C3: a message with missing, empty or whitespace-only content sent to an
\* existing agent is answered 400 and nothing is written.
C3_BlankMessageRejected ==
    [][\A agent_id \in 1..MaxAgentId, message \in Optional(Texts) :
        ( /\ resp'.op = "send_message"
          /\ HasId(database.agents, agent_id)
          /\ Blank(message)
          /\ SendMessageAt(0, agent_id, message) )
        => (resp'.code = 400 /\ database' = database)]_vars

\* C4: a message sent to an agent id that is not in the agents table is
\* answered 404, whatever its content, and nothing is written.
C4_UnknownAgentNotFound ==
    [][\A agent_id \in 1..MaxAgentId, message \in Optional(Texts) :
        ( /\ resp'.op = "send_message"
          /\ ~HasId(database.agents, agent_id)
          /\ SendMessageAt(0, agent_id, message) )
        => (resp'.code = 404 /\ database' = database)]_vars

\* C5: once initialization has completed, running it again leaves the row
\* count of every table as it was.
C5_SeedingIdempotent ==
    [][(db_initialized = "yes" /\ resp'.op = "init_app")
        => RowCounts(database') = RowCounts(database)]_vars

\* C5's case: an initialization that ran to its end over tables an earlier
\* run had already seeded, so that it inserted nothing.
C5_Witness ==
    /\ resp.op = "init_app"
    /\ resp.body.success
    /\ resp.body.log = {"Database tables initialized successfully"}
    /\ Len(database.agents) = 5 /\ Len(database.projects) = 4 /\ Len(database.timeline) = 1

\* C6: initialization, with the database working, seeds each table on its
\* own: an empty agents table ends with exactly the five default agents, an
\* empty projects table with the four default projects, an empty timeline
\* with the one bootstrap event, and a table that holds a row is unchanged.
C6_SeedsEachEmptyTable ==
    [][InitAppAt(0) =>
        /\ IF database.agents = <<>>
           THEN Unkeyed(database'.agents) = default_agents
           ELSE database'.agents = database.agents
        /\ IF database.projects = <<>>
           THEN Unkeyed(database'.projects) = default_projects
           ELSE database'.projects = database.projects
        /\ IF database.timeline = <<>>
           THEN database'.timeline = <<bootstrap_event>>
           ELSE database'.timeline = database.timeline]_vars

\* C7: the health check always answers 200; its body says 'healthy' when the
\* database is reachable and 'degraded' when the probe fails.
C7_HealthAlways200 ==
    [][( resp'.op = "health" =>
            /\ resp'.code = 200
            /\ resp'.body.status = (IF HealthAt(0) THEN "healthy" ELSE "degraded") )
       /\ ( resp'.op = "minimal_health" =>
            (resp'.code = 200 /\ resp'.body.status = "healthy") )]_vars

\* C8: on either backend a message with non-empty content to an existing
\* agent succeeds: one new outbound message row with the trimmed content, the
\* agent busy, one new 'message' timeline entry naming the agent, and every
\* other agent as before.
C8_MessageRecorded ==
    [][\A agent_id \in 1..MaxAgentId, message \in Optional(Texts) :
        ( /\ resp'.op = "send_message"
          /\ HasId(database.agents, agent_id)
          /\ ~Blank(message)
          /\ SendMessageAt(0, agent_id, message) )
        => LET k == AgentWithId(database, agent_id)
               name == database.agents[k].name
           IN  /\ resp'.body.success
               /\ database'.messages =
                    Append(database.messages,
                           [agent_id |-> agent_id, content |-> Strip(message[1]),
                            direction |-> "outbound"])
               /\ database'.agents =
                    [database.agents EXCEPT ![k].status = "busy"]
               /\ Len(database'.timeline) = Len(database.timeline) + 1
               /\ database'.timeline[Len(database'.timeline)].event_type = "message"
               /\ database'.timeline[Len(database'.timeline)].agent_name = name]_vars

\* C9: on either backend a spawn with an existing agent_id and a non-empty
\* task succeeds: one new 'running' subagent row for the agent's name and the
\* task, the agent active, one new 'spawn' timeline entry, and the returned
\* session id is the stored one.
C9_SpawnRecorded ==
    [][\A agent_id \in 1..MaxAgentId, task \in Optional(Texts), now \in ClockReadings :
        ( /\ resp'.op = "spawn_agent"
          /\ HasId(database.agents, agent_id)
          /\ ~Blank(task)
          /\ SpawnAgentAt(0, <<agent_id>>, task, now) )
        => LET k == AgentWithId(database, agent_id)
               name == database.agents[k].name
               n == Len(database'.subagents)
           IN  /\ resp'.body.success
               /\ n = Len(database.subagents) + 1
               /\ SubSeq(database'.subagents, 1, n - 1) = database.subagents
               /\ database'.subagents[n].status = "running"
               /\ database'.subagents[n].agent_name = name
               /\ database'.subagents[n].task = Strip(task[1])
               /\ database'.subagents[n].session_id = resp'.body.session_id
               /\ database'.agents =
                    [database.agents EXCEPT ![k].status = "active"]
               /\ Len(database'.timeline) = Len(database.timeline) + 1
               /\ database'.timeline[Len(database'.timeline)].event_type = "spawn"]_vars

\* b holds the rows of a, unchanged and in place, and possibly more after them.
IsPrefix(a, b) == Len(a) <= Len(b) /\ SubSeq(b, 1, Len(a)) = a

C12_NoQuestionMarkOnPostgres ==
    is_postgresql => "qmark" \notin request.handed

\* C13: a request opens a connection only when it uses the database, at most
\* once however often it uses it, and no connection it opened is still open
\* after teardown; a request that never uses the database opens none.
C13_OneConnectionPerRequest ==
    /\ request.opens <= 1
    /\ request.opens <= request.uses
    /\ request.open = 0
    /\ request.uses = 0 => request.opens = 0

\* C13's case: an update that asked for the connection several times has
\* been served.
C13_Witness ==
    /\ resp.op = "update_project"
    /\ resp.body.success
    /\ request.uses >= 3
    /\ request.opens = 1
    /\ request.open = 0

=============================================================================
